---- MODULE Spec2Model ----
(***************************************************************************)
(* Model of morning_dashboard.py: the four data-source adapters, the card  *)
(* layout cursor, and main()'s render / image-send / text-fallback         *)
(* pipeline.                                                               *)
(***************************************************************************)
EXTENDS Integers, Sequences, FiniteSets, TLC

VARIABLES pc, attempts, wlog, weather, events, todos, birthdays, render, handed, sent, exitCode, arg, ret

vars == <<pc, attempts, wlog, weather, events, todos, birthdays, render, handed, sent, exitCode, arg, ret>>

mainVars == <<attempts, wlog, weather, events, todos, birthdays, render, handed, sent, exitCode>>

(***************************************************************************)
(* Bounds of the model.                                                    *)
(***************************************************************************)
MinYear == 2023

MaxYear == 2024

MaxEntries == 2

MaxStdoutLines == 3

MaxItems == 9

(***************************************************************************)
(* JSON / Python values: None, an integer, or a non-numeric string.        *)
(***************************************************************************)
NoneV == [t |-> "none", v |-> 0]

IntV(n) == [t |-> "int", v |-> n]

StrV == [t |-> "str", v |-> 0]

\* Python truthiness: None, 0 and "" are falsy; a non-empty string is truthy.
Truthy(x) == CASE x.t = "none" -> FALSE
               [] x.t = "int" -> x.v # 0
               [] OTHER -> TRUE

(***************************************************************************)
(* datetime.date: proleptic Gregorian calendar.                            *)
(***************************************************************************)
IsLeap(y) == (y % 4 = 0) /\ ((y % 100 # 0) \/ (y % 400 = 0))

DaysInMonth(y, m) == CASE m = 2 -> IF IsLeap(y) THEN 29 ELSE 28
                       [] m \in {4, 6, 9, 11} -> 30
                       [] OTHER -> 31

\* date(y, m, d) / date.replace(...) raise ValueError unless this holds.
ValidDate(y, m, d) == /\ m >= 1 /\ m <= 12
                      /\ d >= 1 /\ d <= DaysInMonth(y, m)

DaysBeforeYear(y) == (y - 1) * 365 + ((y - 1) \div 4) - ((y - 1) \div 100) + ((y - 1) \div 400)

RECURSIVE DaysBeforeMonth(_, _)
DaysBeforeMonth(y, m) == IF m <= 1 THEN 0 ELSE DaysBeforeMonth(y, m - 1) + DaysInMonth(y, m - 1)

\* date.toordinal(); (a - b).days is the difference of two ordinals.
ToOrdinal(y, m, d) == DaysBeforeYear(y) + DaysBeforeMonth(y, m) + d

Date(y, m, d) == [year |-> y, month |-> m, day |-> d]

Ord(dt) == ToOrdinal(dt.year, dt.month, dt.day)

(***************************************************************************)
(* get_upcoming_birthdays.  The birthdays file is                          *)
(*   [kind |-> "missing" | "unreadable" | "badjson" | "json",              *)
(*    shape |-> "dict" | "list", entries |-> <<entry, ...>>]               *)
(* and an entry is [name, isdict, day, month, year] in file order.         *)
(* Non-ASCII characters of the program's strings are transliterated.       *)
(***************************************************************************)
Entry(n, d, m, y) == [name |-> n, isdict |-> TRUE, day |-> d, month |-> m, year |-> y]

NoAge == [known |-> FALSE, v |-> 0]

Age(n) == [known |-> TRUE, v |-> n]

\* Mutant: a birthday that is today counts as already passed.
BirthdayEntry_TodayPassed(today, e, days) ==
  IF ~e.isdict THEN [kind |-> "raise"]
  ELSE IF ~Truthy(e.day) \/ ~Truthy(e.month) THEN [kind |-> "skip"]
  ELSE IF e.day.t # "int" \/ e.month.t # "int" THEN [kind |-> "raise"]
  ELSE IF ~ValidDate(today.year, e.month.v, e.day.v) THEN [kind |-> "skip"]
  ELSE LET this == Date(today.year, e.month.v, e.day.v)
           passed == Ord(this) <= Ord(today)
       IN IF passed /\ ~ValidDate(today.year + 1, e.month.v, e.day.v) THEN [kind |-> "skip"]
          ELSE LET bd == IF passed THEN Date(today.year + 1, e.month.v, e.day.v) ELSE this
                   days_until == Ord(bd) - Ord(today)
               IN IF ~(days_until <= days) THEN [kind |-> "far"]
                  ELSE IF ~Truthy(e.year) THEN [kind |-> "keep", du |-> days_until, name |-> e.name, age |-> NoAge]
                  ELSE IF e.year.t # "int" THEN [kind |-> "raise"]
                  ELSE [kind |-> "keep", du |-> days_until, name |-> e.name, age |-> Age(bd.year - e.year.v)]

\* Lines 263-288 for one entry.  Result kinds: "skip" (continue), "raise"
\* (an exception the function does not catch), "far" (beyond the horizon),
\* "keep" (appended to upcoming as (days_until, name, age)).
BirthdayEntry(today, e, days) ==
  IF ~e.isdict THEN [kind |-> "raise"]                          \* data.get: AttributeError
  ELSE IF ~Truthy(e.day) \/ ~Truthy(e.month) THEN [kind |-> "skip"]
  ELSE IF e.day.t # "int" \/ e.month.t # "int" THEN [kind |-> "raise"]   \* replace: TypeError
  ELSE IF ~ValidDate(today.year, e.month.v, e.day.v) THEN [kind |-> "skip"]
  ELSE LET this == Date(today.year, e.month.v, e.day.v)
           passed == Ord(this) < Ord(today)
       IN IF passed /\ ~ValidDate(today.year + 1, e.month.v, e.day.v) THEN [kind |-> "skip"]
          ELSE LET bd == IF passed THEN Date(today.year + 1, e.month.v, e.day.v) ELSE this
                   days_until == Ord(bd) - Ord(today)
               IN IF ~(days_until <= days) THEN [kind |-> "far"]
                  ELSE IF ~Truthy(e.year) THEN [kind |-> "keep", du |-> days_until, name |-> e.name, age |-> NoAge]
                  ELSE IF e.year.t # "int" THEN [kind |-> "raise"]        \* int(year_born): ValueError
                  ELSE [kind |-> "keep", du |-> days_until, name |-> e.name, age |-> Age(bd.year - e.year.v)]

\* The for loop of lines 262-288: upcoming in file order, or "raise".
RECURSIVE CollectUpcoming(_, _, _, _)
CollectUpcoming(today, entries, days, acc) ==
  IF entries = <<>> THEN [raised |-> FALSE, upcoming |-> acc]
  ELSE LET r == BirthdayEntry(today, Head(entries), days)
       IN IF r.kind = "raise" THEN [raised |-> TRUE, upcoming |-> <<>>]
          ELSE IF r.kind = "keep"
               THEN CollectUpcoming(today, Tail(entries), days, Append(acc, [du |-> r.du, name |-> r.name, age |-> r.age]))
               ELSE CollectUpcoming(today, Tail(entries), days, acc)

\* list.sort(key=lambda x: x[0]) is stable: insert after the last element
\* whose key is not greater.
RECURSIVE InsertByDays(_, _)
InsertByDays(sorted, x) ==
  IF sorted = <<>> THEN <<x>>
  ELSE IF Head(sorted).du <= x.du THEN <<Head(sorted)>> \o InsertByDays(Tail(sorted), x)
  ELSE <<x>> \o sorted

RECURSIVE SortByDays(_)
SortByDays(s) == IF s = <<>> THEN <<>> ELSE InsertByDays(SortByDays(SubSeq(s, 1, Len(s) - 1)), s[Len(s)])

\* Lines 295-305: one result string.
FormatBirthday(u) ==
  LET age_str == IF u.age.known /\ u.age.v # 0 THEN " (" \o ToString(u.age.v) \o ")" ELSE ""
      prefix == IF u.du = 0 THEN "Heute"
                ELSE IF u.du = 1 THEN "Morgen"
                ELSE "in " \o ToString(u.du) \o " Tagen"
  IN prefix \o ": " \o u.name \o age_str

\* The whole function: [raised, upcoming (the sorted list of line 291), value].
get_upcoming_birthdays(today, file, days) ==
  IF file.kind \in {"missing", "badjson"} THEN [raised |-> FALSE, upcoming |-> <<>>, value |-> <<>>]
  ELSE IF file.kind = "unreadable" THEN [raised |-> TRUE, upcoming |-> <<>>, value |-> <<>>]   \* PermissionError
  ELSE IF file.shape # "dict" THEN [raised |-> TRUE, upcoming |-> <<>>, value |-> <<>>]        \* .items(): AttributeError
  ELSE LET c == CollectUpcoming(today, file.entries, days, <<>>)
       IN IF c.raised THEN [raised |-> TRUE, upcoming |-> <<>>, value |-> <<>>]
          ELSE LET up == SortByDays(c.upcoming)
               IN [raised |-> FALSE, upcoming |-> up, value |-> [i \in 1..Len(up) |-> FormatBirthday(up[i])]]

(***************************************************************************)
(* Text lines.  A raw line is [lead, text, trail]: `lead` spaces, a text   *)
(* with no surrounding whitespace (possibly empty), `trail` spaces.        *)
(***************************************************************************)
Line(l, t, r) == [lead |-> l, text |-> t, trail |-> r]

RECURSIVE Spaces(_)
Spaces(n) == IF n <= 0 THEN "" ELSE " " \o Spaces(n - 1)

\* The Python string of a raw line.
LineStr(l) == Spaces(l.lead) \o l.text \o Spaces(l.trail)

\* l.strip() is empty.
IsBlank(l) == l.text = ""

LStrip(l) == IF IsBlank(l) THEN Line(0, "", 0) ELSE [l EXCEPT !.lead = 0]

RStrip(l) == IF IsBlank(l) THEN Line(0, "", 0) ELSE [l EXCEPT !.trail = 0]

\* The texts of the model that begin with "Today,".
HeaderTexts == {"Today, 31.10.2026", "Today, 31.10.2026 Party"}

\* l.startswith("Today,")
StartsWithToday(l) == l.lead = 0 /\ l.text \in HeaderTexts

RECURSIVE DropLeadingBlank(_)
DropLeadingBlank(ls) == IF ls # <<>> /\ IsBlank(Head(ls)) THEN DropLeadingBlank(Tail(ls)) ELSE ls

RECURSIVE DropTrailingBlank(_)
DropTrailingBlank(ls) ==
  IF ls # <<>> /\ IsBlank(ls[Len(ls)]) THEN DropTrailingBlank(SubSeq(ls, 1, Len(ls) - 1)) ELSE ls

\* stdout.strip().split("\n") for a non-empty stdout given as its lines.
StripSplit(ls) ==
  LET core == DropTrailingBlank(DropLeadingBlank(ls))
  IN IF core = <<>> THEN <<Line(0, "", 0)>>
     ELSE [i \in 1..Len(core) |->
             LET a == IF i = 1 THEN LStrip(core[i]) ELSE core[i]
             IN IF i = Len(core) THEN RStrip(a) ELSE a]

\* Mutant: blank lines are not filtered out.
RECURSIVE KeepEvents_KeepBlank(_)
KeepEvents_KeepBlank(ls) ==
  IF ls = <<>> THEN <<>>
  ELSE IF ~StartsWithToday(Head(ls))
       THEN <<LineStr(Head(ls))>> \o KeepEvents_KeepBlank(Tail(ls))
       ELSE KeepEvents_KeepBlank(Tail(ls))

RECURSIVE KeepEvents(_)
KeepEvents(ls) ==
  IF ls = <<>> THEN <<>>
  ELSE IF ~StartsWithToday(Head(ls)) /\ ~IsBlank(Head(ls))
       THEN <<LineStr(Head(ls))>> \o KeepEvents(Tail(ls))
       ELSE KeepEvents(Tail(ls))

\* get_calendar.  run is [kind |-> "raise", msg] (subprocess.run raised) or
\* [kind |-> "ok", stdout |-> <<line, ...>>] (<<>> is the empty stdout).
get_calendar(run) ==
  IF run.kind = "raise" THEN <<"Fehler: " \o run.msg>>
  ELSE LET lines == IF run.stdout # <<>> THEN StripSplit(run.stdout) ELSE <<>>
           evs == KeepEvents(lines)
       IN IF evs # <<>> THEN evs ELSE <<"Keine Termine">>

(***************************************************************************)
(* get_todos_lines.  file is [kind |-> "missing" | "unreadable" | "text",  *)
(* lines |-> <<line, ...>>].                                               *)
(***************************************************************************)
\* The texts of the model that begin with "#", and with "- [".
HashTexts == {"# Heading"}

CheckboxTexts == {"- [ ] task1", "- [x] task2", "- [ ] task3", "- [X] task4", "- [docs](url)"}

\* Mutant: prose lines are kept as tasks too.
RECURSIVE KeepTasks_KeepProse(_)
KeepTasks_KeepProse(ls) ==
  IF ls = <<>> THEN <<>>
  ELSE LET s == Head(ls).text
       IN IF s = "" THEN KeepTasks_KeepProse(Tail(ls))
          ELSE IF s \in HashTexts THEN KeepTasks_KeepProse(Tail(ls))
          ELSE <<s>> \o KeepTasks_KeepProse(Tail(ls))

RECURSIVE KeepTasks(_)
KeepTasks(ls) ==
  IF ls = <<>> THEN <<>>
  ELSE LET s == Head(ls).text       \* s = ln.strip()
       IN IF s = "" THEN KeepTasks(Tail(ls))
          ELSE IF s \in HashTexts THEN KeepTasks(Tail(ls))
          ELSE IF s \in CheckboxTexts THEN <<s>> \o KeepTasks(Tail(ls))
          ELSE KeepTasks(Tail(ls))

\* s[:n], also for a negative n.
SliceTo(s, n) ==
  IF n >= 0 THEN SubSeq(s, 1, IF Len(s) < n THEN Len(s) ELSE n)
  ELSE SubSeq(s, 1, IF Len(s) + n > 0 THEN Len(s) + n ELSE 0)

get_todos_lines(file, max_lines) ==
  IF file.kind = "missing" THEN <<"Keine To-dos fuer heute">>
  ELSE IF file.kind = "unreadable" THEN <<"Keine To-dos fuer heute">>
  ELSE LET tasks == KeepTasks(file.lines)
       IN IF tasks = <<>> THEN <<"Keine To-dos fuer heute">>
          ELSE IF Len(tasks) > max_lines
               THEN SliceTo(tasks, max_lines) \o <<"... (+" \o ToString(Len(tasks) - max_lines) \o " weitere)">>
               ELSE tasks

(***************************************************************************)
(* get_weather.  One fetch yields a response                               *)
(*   [kind |-> "neterr" | "timeout"] or                                    *)
(*   [kind |-> "json", t, tmin, tmax, hum, ws, wd, wcode]                  *)
(* whose fields are None, an integer or a non-numeric string.              *)
(***************************************************************************)
Resp(t, tmin, tmax, hum, ws, wd, wcode) ==
  [kind |-> "json", t |-> t, tmin |-> tmin, tmax |-> tmax, hum |-> hum, ws |-> ws, wd |-> wd, wcode |-> wcode]

NetErr == [kind |-> "neterr"]

Timeout == [kind |-> "timeout"]

dirs == <<"N", "NO", "O", "SO", "S", "SW", "W", "NW">>

\* int((deg + 22.5) // 45) % 8, for an integer deg.
_wind_dir_label(deg) == dirs[(((2 * deg + 45) \div 90) % 8) + 1]

NoLine == [kind |-> "none", text |-> "", words |-> <<>>]

\* The string made of the given words, single spaces between them.
RECURSIVE JoinStr(_)
JoinStr(ws) ==
  IF ws = <<>> THEN ""
  ELSE IF Len(ws) = 1 THEN ws[1]
  ELSE Head(ws) \o " " \o JoinStr(Tail(ws))

\* One (kind, text) tuple of "lines"; the text is kept with its words
\* (text.split()) for the layout.
WLine(k, ws) == [kind |-> k, text |-> JoinStr(ws), words |-> ws]

\* The body of the try block (lines 150-181) raises.
AttemptRaises(r) ==
  \/ r.kind # "json"
  \/ r.t.t = "none" \/ r.tmax.t = "none" \/ r.tmin.t = "none"      \* missing fields
  \/ r.t.t = "str" \/ r.tmax.t = "str" \/ r.tmin.t = "str"         \* format :.1f of a string
  \/ r.hum.t = "str"                                               \* int(hum)
  \/ r.ws.t = "str"                                                \* float(ws)
  \/ (r.ws.t = "int" /\ r.wd.t = "str")                            \* float(wd)

\* The dict returned at lines 167-181.
WeatherOk(r) ==
  [ok |-> TRUE,
   weather_code |-> r.wcode,
   lines |-> << WLine("temp", <<ToString(r.t.v) \o ".0degC", "aktuell">>),
                WLine("range", <<ToString(r.tmin.v) \o ".0degC", "/", ToString(r.tmax.v) \o ".0degC">>),
                IF r.hum.t # "none" THEN WLine("humidity", <<ToString(r.hum.v) \o "%", "Luftfeuchte">>) ELSE NoLine,
                IF r.ws.t # "none"
                THEN WLine("wind", IF r.wd.t # "none"
                                   THEN <<_wind_dir_label(r.wd.v), ToString(r.ws.v), "km/h">>
                                   ELSE <<ToString(r.ws.v), "km/h">>)
                ELSE NoLine >>]

\* The dict returned at line 185.
WeatherUnavailable ==
  [ok |-> FALSE, weather_code |-> NoneV, lines |-> <<WLine("info", <<"Wetterdaten", "nicht", "verfuegbar">>)>>]

WeatherAttempts == 3

\* [x for x in lines if x]
RECURSIVE NonNone(_)
NonNone(ls) ==
  IF ls = <<>> THEN <<>>
  ELSE IF Head(ls).kind # "none" THEN <<Head(ls)>> \o NonNone(Tail(ls)) ELSE NonNone(Tail(ls))

(***************************************************************************)
(* _wrap.  A text is the sequence of its whitespace-separated words        *)
(* (text.split()); draw.textbbox(...)[2] of a joined line is the sum of    *)
(* the word widths plus one space width between neighbours.                *)
(***************************************************************************)
SpaceW == 10

WordWidth(wd) == CASE wd = "a" -> 100
                   [] wd = "bb" -> 400
                   [] wd = "ccc" -> 600
                   [] wd = "dddd" -> 1000
                   [] wd = "09:00" -> 90
                   [] OTHER -> 50

RECURSIVE TextWidth(_)
TextWidth(ws) ==
  IF ws = <<>> THEN 0
  ELSE IF Len(ws) = 1 THEN WordWidth(ws[1])
  ELSE WordWidth(Head(ws)) + SpaceW + TextWidth(Tail(ws))

\* Mutant: the width test looks at the line before the word is added.
RECURSIVE WrapLoop_MeasureCur(_, _, _, _)
WrapLoop_MeasureCur(words, cur, lines, max_width) ==
  IF words = <<>> THEN IF cur # <<>> THEN Append(lines, cur) ELSE lines
  ELSE LET trial == Append(cur, Head(words))
       IN IF TextWidth(cur) <= max_width \/ cur = <<>>
          THEN WrapLoop_MeasureCur(Tail(words), trial, lines, max_width)
          ELSE WrapLoop_MeasureCur(Tail(words), <<Head(words)>>, Append(lines, cur), max_width)

\* Mutant: no "or not cur", so an overlong first word flushes an empty line.
RECURSIVE WrapLoop_NoEmptyGuard(_, _, _, _)
WrapLoop_NoEmptyGuard(words, cur, lines, max_width) ==
  IF words = <<>> THEN IF cur # <<>> THEN Append(lines, cur) ELSE lines
  ELSE LET trial == Append(cur, Head(words))
       IN IF TextWidth(trial) <= max_width
          THEN WrapLoop_NoEmptyGuard(Tail(words), trial, lines, max_width)
          ELSE WrapLoop_NoEmptyGuard(Tail(words), <<Head(words)>>, Append(lines, cur), max_width)

\* The for loop of lines 329-336; a line is the sequence of its words.
RECURSIVE WrapLoop(_, _, _, _)
WrapLoop(words, cur, lines, max_width) ==
  IF words = <<>> THEN IF cur # <<>> THEN Append(lines, cur) ELSE lines
  ELSE LET trial == Append(cur, Head(words))
       IN IF TextWidth(trial) <= max_width \/ cur = <<>>
          THEN WrapLoop(Tail(words), trial, lines, max_width)
          ELSE WrapLoop(Tail(words), <<Head(words)>>, Append(lines, cur), max_width)

_wrap(words, max_width) == WrapLoop(words, <<>>, <<>>, max_width)

\* A string as its tokens: " " is one whitespace character, any other
\* token is a whole word.  text.split() keeps the words.
Split(text) == SelectSeq(text, LAMBDA tk : tk # " ")

\* " ".join(words)
RECURSIVE JoinText(_)
JoinText(ws) ==
  IF ws = <<>> THEN <<>>
  ELSE IF Len(ws) = 1 THEN <<ws[1]>>
  ELSE <<Head(ws), " ">> \o JoinText(Tail(ws))

\* _wrap(draw, text, font, max_width) on strings: the list of line strings.
wrap_text(text, max_width) ==
  LET ls == _wrap(Split(text), max_width)
  IN [i \in 1..Len(ls) |-> JoinText(ls[i])]

(***************************************************************************)
(* card_block: the cursor of one card.  An item is [kind, first, words]:   *)
(* kind "bullet" (the line starts with the bullet prefix), "clock" (its    *)
(* first token is a clock time followed by more text) or "plain"; `first`  *)
(* is that prefix token ("" if none), `words` the words after it.          *)
(***************************************************************************)
Item(k, f, ws) == [kind |-> k, first |-> f, words |-> ws]

LineAdvance == 44

DividerAdvance == 24

StartOffset == 86

BottomPad == 40

\* Mutant: the divider is drawn whenever the cursor is above the bottom
\* padding, 20 units later than the code allows.
DividerPad_SameAsBottomPad == BottomPad

DividerPad == 60

\* Measured widths of the bullet prefix and of a time prefix in f_txt.
BulletW == 30

TimeW == 100

\* (header or "").strip().lower() for the three headers in use.
HeaderKey(header) == CASE header = "Termine" -> "termine"
                       [] header = "To-dos" -> "to-dos"
                       [] header = "Geburtstage (7 Tage)" -> "geburtstage (7 tage)"
                       [] OTHER -> header

IsTodosHeader(header) == HeaderKey(header) \in {"to-dos", "to-do", "todos", "to dos"}

IsCalendarHeader(header) == HeaderKey(header) \in {"termine", "kalender", "calendar", "events"}

\* The wrapped physical lines of one item (lines 577-623).
ItemLines(it, max_w, is_todos, is_calendar) ==
  LET all == (IF it.first = "" THEN <<>> ELSE <<it.first>>) \o it.words
  IN IF is_todos THEN _wrap(all, max_w - BulletW)          \* ln = bullet + _clean_todo(ln)
     ELSE IF it.kind = "bullet" THEN _wrap(it.words, max_w - BulletW)
     ELSE IF is_calendar /\ it.kind = "clock" THEN _wrap(it.words, max_w - TimeW)
     ELSE _wrap(all, max_w)

\* The inner loops: draw n lines from yy; stop once yy > limit after a line.
RECURSIVE DrawLines(_, _, _, _)
DrawLines(n, yy, limit, drawn) ==
  IF n = 0 THEN [yy |-> yy, drawn |-> drawn, stop |-> FALSE]
  ELSE LET yy2 == yy + LineAdvance
       IN IF yy2 > limit THEN [yy |-> yy2, drawn |-> Append(drawn, yy), stop |-> TRUE]
          ELSE DrawLines(n - 1, yy2, limit, Append(drawn, yy))

\* The for loop of lines 576-636.
RECURSIVE CardLoop(_, _, _, _, _, _, _, _)
CardLoop(items, yy, drawn, y, h, max_w, style, header) ==
  IF items = <<>> THEN [ret |-> yy, drawn |-> drawn, truncated |-> FALSE, left |-> 0]
  ELSE LET is_todos == IsTodosHeader(header)
           n == Len(ItemLines(Head(items), max_w, is_todos, IsCalendarHeader(header)))
           d == DrawLines(n, yy, y + h - BottomPad, drawn)
       IN IF d.stop THEN [ret |-> d.yy, drawn |-> d.drawn, truncated |-> TRUE, left |-> Len(items) - 1]
          ELSE LET yy3 == IF d.yy < y + h - DividerPad /\ (style = "list" \/ is_todos)
                          THEN d.yy + DividerAdvance ELSE d.yy
               IN CardLoop(Tail(items), yy3, d.drawn, y, h, max_w, style, header)

\* card_block(x, y, w, h, header, lines, ...): the returned cursor, the
\* cursor positions at which content lines were drawn, whether drawing
\* stopped early and how many items were then left untouched.
card_block(y, w, h, style, header, items) ==
  CardLoop(items, y + StartOffset, <<>>, y, h, w - 68, style, header)

(***************************************************************************)
(* main(): inputs the environment can present to one run.                  *)
(***************************************************************************)
WeatherResponses ==
  { NetErr, Timeout,
    Resp(NoneV, IntV(2), IntV(9), IntV(80), IntV(12), IntV(200), IntV(61)),     \* missing field
    Resp(IntV(5), IntV(2), IntV(9), StrV, IntV(12), IntV(200), IntV(3)),        \* malformed value
    Resp(IntV(5), IntV(2), IntV(9), IntV(80), IntV(12), IntV(200), IntV(61)),
    Resp(IntV(-3), IntV(-7), IntV(0), NoneV, NoneV, NoneV, NoneV) }

CalendarRuns ==
  { [kind |-> "raise", msg |-> "[Errno 2] No such file or directory: 'khal'"],
    [kind |-> "ok", stdout |-> <<>>],
    [kind |-> "ok", stdout |-> <<Line(0, "Today, 31.10.2026", 0)>>],
    [kind |-> "ok", stdout |-> <<Line(0, "Today, 31.10.2026", 0), Line(0, "09:00 Standup", 0)>>] }

TodoFiles ==
  { [kind |-> "missing", lines |-> <<>>],
    [kind |-> "text", lines |-> <<Line(0, "# Heading", 0), Line(0, "", 0), Line(0, "note text", 0)>>],
    [kind |-> "text", lines |-> <<Line(0, "# Heading", 0), Line(0, "- [ ] task1", 0), Line(2, "- [x] task2", 0)>>] }

Names == <<"Anna", "Ben", "Cleo", "Dora">>

JsonDict(es) == [kind |-> "json", shape |-> "dict", entries |-> es]

MainBirthdayFiles ==
  { [kind |-> "missing", shape |-> "dict", entries |-> <<>>],
    [kind |-> "unreadable", shape |-> "dict", entries |-> <<>>],
    [kind |-> "json", shape |-> "list", entries |-> <<>>],
    JsonDict(<<>>),
    JsonDict(<<Entry("Anna", IntV(10), IntV(6), IntV(1990))>>),
    JsonDict(<<Entry("Anna", StrV, IntV(6), NoneV)>>) }

MainToday == Date(2024, 6, 10)

DefaultMaxLines == 6

DefaultDays == 7

\* s[:n]
Take(s, n) == SubSeq(s, 1, IF Len(s) < n THEN Len(s) ELSE n)

\* Mutant: no placeholder for an empty birthday list.
LayoutCalls_NoPlaceholder(w, cal, td, bd) ==
  << [block |-> "Wetter", lines |-> NonNone(w.lines)],
     [block |-> "Termine", lines |-> Take(cal, 11)],
     [block |-> "To-dos", lines |-> Take(td, 18)],
     [block |-> "Geburtstage (7 Tage)", lines |-> Take(bd, 5)] >>

\* The four lists render_dashboard_png passes to weather_block and
\* card_block, in call order (lines 696-698, 735-746).
LayoutCalls(w, cal, td, bd) ==
  << [block |-> "Wetter", lines |-> NonNone(w.lines)],
     [block |-> "Termine", lines |-> Take(cal, 11)],
     [block |-> "To-dos", lines |-> Take(td, 18)],
     [block |-> "Geburtstage (7 Tage)",
      lines |-> Take(IF bd # <<>> THEN bd ELSE <<"Keine in den naechsten 7 Tagen">>, 5)] >>

(***************************************************************************)
(* main(): one action per step.                                            *)
(***************************************************************************)
NoRet == [done |-> FALSE]

NoArg == [fn |-> "none"]

MainInit ==
  /\ attempts = 0
  /\ wlog = <<>>
  /\ weather = WeatherUnavailable
  /\ events = <<>>
  /\ todos = <<>>
  /\ birthdays = <<>>
  /\ render = "pending"
  /\ handed = <<>>
  /\ sent = <<>>
  /\ exitCode = -1

Init ==
  /\ pc = "weather"
  /\ MainInit
  /\ arg = NoArg
  /\ ret = NoRet

\* Mutant: the loop gives up after two attempts.
WeatherNext_TwoAttempts(n, failed) == IF ~failed THEN "return" ELSE IF n >= 2 THEN "giveup" ELSE "loop"

\* Where get_weather goes after one attempt: return on success, return the
\* placeholder after the last attempt, else loop.
WeatherNext(n, failed) == IF ~failed THEN "return" ELSE IF n >= WeatherAttempts THEN "giveup" ELSE "loop"

\* One iteration of the retry loop of get_weather (lines 148-185).
FetchWeather ==
  /\ pc = "weather"
  /\ attempts < WeatherAttempts
  /\ \E r \in WeatherResponses :
       LET nx == WeatherNext(attempts + 1, AttemptRaises(r))
       IN /\ attempts' = attempts + 1
          /\ wlog' = Append(wlog, r)
          /\ weather' = IF nx = "return" THEN WeatherOk(r) ELSE WeatherUnavailable
          /\ pc' = IF nx = "loop" THEN "weather" ELSE "calendar"
  /\ UNCHANGED <<events, todos, birthdays, render, handed, sent, exitCode, arg, ret>>

\* events = get_calendar()
Calendar ==
  /\ pc = "calendar"
  /\ \E run \in CalendarRuns : events' = get_calendar(run)
  /\ pc' = "todos"
  /\ UNCHANGED <<attempts, wlog, weather, todos, birthdays, render, handed, sent, exitCode, arg, ret>>

\* todos = get_todos_lines()
Todos ==
  /\ pc = "todos"
  /\ \E f \in TodoFiles : todos' = get_todos_lines(f, DefaultMaxLines)
  /\ pc' = "birthdays"
  /\ UNCHANGED <<attempts, wlog, weather, events, birthdays, render, handed, sent, exitCode, arg, ret>>

\* birthdays = get_upcoming_birthdays(days=7); an exception it lets through
\* is not caught by main() and ends the process with a traceback.
Birthdays ==
  /\ pc = "birthdays"
  /\ \E f \in MainBirthdayFiles :
       LET r == get_upcoming_birthdays(MainToday, f, DefaultDays)
       IN IF r.raised
          THEN /\ pc' = "crashed"
               /\ UNCHANGED birthdays
          ELSE /\ pc' = "render"
               /\ birthdays' = r.value
  /\ UNCHANGED <<attempts, wlog, weather, events, todos, render, handed, sent, exitCode, arg, ret>>

\* render_dashboard_png: returns the png after its four layout calls, or
\* raises (no Pillow, no font, a drawing error) after k of them.
Render ==
  /\ pc = "render"
  /\ \E k \in 0..4, ok \in BOOLEAN :
       /\ ok => k = 4
       /\ handed' = SubSeq(LayoutCalls(weather, events, todos, birthdays), 1, k)
       /\ render' = IF ok THEN "png" ELSE "raised"
       /\ pc' = IF ok THEN "send_photo" ELSE "text"
  /\ UNCHANGED <<attempts, wlog, weather, events, todos, birthdays, sent, exitCode, arg, ret>>

\* Mutant: the text dashboard is sent even after the image went out.
AfterPhoto_AlwaysText(r) == "text"

\* Where main() goes after send_telegram_photo: "ok" returned True, "fail"
\* returned False, "raise" raised (no bot token), caught at line 826.
AfterPhoto(r) == IF r = "ok" THEN "Delivered" ELSE "text"

SendPhoto ==
  /\ pc = "send_photo"
  /\ \E r \in {"ok", "fail", "raise"} :
       /\ sent' = Append(sent, [call |-> "photo", result |-> r])
       /\ pc' = AfterPhoto(r)
       /\ exitCode' = IF AfterPhoto(r) = "Delivered" THEN 0 ELSE exitCode
  /\ UNCHANGED <<attempts, wlog, weather, events, todos, birthdays, render, handed, arg, ret>>

\* Mutant: a failed text delivery still exits 0.
TextExit_AlwaysZero(r) == 0

\* The exit code after send_telegram_message returned r.
TextExit(r) == IF r = "ok" THEN 0 ELSE 1

SendText ==
  /\ pc = "text"
  /\ \E r \in {"ok", "fail"} :
       /\ sent' = Append(sent, [call |-> "message", result |-> r])
       /\ exitCode' = TextExit(r)
       /\ pc' = IF TextExit(r) = 0 THEN "Delivered" ELSE "DeliveryFailed"
  /\ UNCHANGED <<attempts, wlog, weather, events, todos, birthdays, render, handed, arg, ret>>

Next == FetchWeather \/ Calendar \/ Todos \/ Birthdays \/ Render \/ SendPhoto \/ SendText

Spec == Init /\ [][Next]_vars

(***************************************************************************)
(* The adapters and card_block on their own: Init draws the inputs, one    *)
(* action applies the function.                                            *)
(***************************************************************************)
RECURSIVE SeqsUpTo(_, _)
SeqsUpTo(S, n) ==
  IF n = 0 THEN {<<>>}
  ELSE LET shorter == SeqsUpTo(S, n - 1)
       IN shorter \cup {Append(q, x) : q \in {r \in shorter : Len(r) = n - 1}, x \in S}

\* get_calendar -------------------------------------------------------------
CalendarLines ==
  { Line(0, "Today, 31.10.2026", 0), Line(1, "Today, 31.10.2026 Party", 0),
    Line(0, "", 0), Line(2, "", 0),
    Line(0, "09:00 Standup", 0), Line(1, "Meeting", 1) }

CalendarInputs ==
  { [kind |-> "raise", msg |-> m] :
      m \in {"[Errno 2] No such file or directory: 'khal'",
             "Command '['khal', 'list', 'today', '1d']' timed out after 12 seconds"} }
  \cup { [kind |-> "ok", stdout |-> ls] : ls \in SeqsUpTo(CalendarLines, MaxStdoutLines) }

InitCalendar ==
  /\ pc = "fn_calendar"
  /\ MainInit
  /\ arg \in {[fn |-> "get_calendar", run |-> r] : r \in CalendarInputs}
  /\ ret = NoRet

ApplyCalendar ==
  /\ pc = "fn_calendar"
  /\ ret' = [done |-> TRUE, value |-> get_calendar(arg.run)]
  /\ pc' = "fn_done"
  /\ UNCHANGED <<mainVars, arg>>

SpecCalendar == InitCalendar /\ [][ApplyCalendar]_vars

\* get_upcoming_birthdays ---------------------------------------------------
\* (day, month, year) of the entries tried.
BirthdayData ==
  { <<IntV(10), IntV(6), IntV(1990)>>, <<IntV(11), IntV(6), NoneV>>,
    <<IntV(13), IntV(6), IntV(2024)>>, <<IntV(17), IntV(6), NoneV>>,
    <<IntV(18), IntV(6), IntV(2001)>>, <<IntV(9), IntV(6), NoneV>>,
    <<IntV(1), IntV(1), IntV(2025)>>, <<IntV(1), IntV(1), NoneV>>,
    <<IntV(31), IntV(12), IntV(1990)>>,
    <<IntV(29), IntV(2), IntV(2000)>>, <<IntV(1), IntV(3), NoneV>>,
    <<IntV(31), IntV(4), NoneV>>, <<IntV(0), IntV(5), NoneV>>,
    <<StrV, IntV(6), NoneV>>, <<IntV(10), IntV(6), StrV>> }

TodayMonthDays == { <<6, 10>>, <<12, 28>>, <<12, 31>>, <<1, 1>>, <<2, 22>>, <<2, 28>>, <<2, 29>>, <<3, 1>> }

Todays ==
  { Date(y, md[1], md[2]) : y \in MinYear..MaxYear, md \in TodayMonthDays }

HorizonDays == {0, 7, 60}

\* Files of distinct names: the i-th entry is named Names[i].
BirthdayFiles ==
  { JsonDict([i \in 1..Len(ds) |-> Entry(Names[i], ds[i][1], ds[i][2], ds[i][3])]) :
      ds \in SeqsUpTo(BirthdayData, MaxEntries) }
  \cup { [kind |-> k, shape |-> "dict", entries |-> <<>>] : k \in {"missing", "badjson", "unreadable"} }
  \cup { [kind |-> "json", shape |-> "list", entries |-> <<>>] }
  \cup { JsonDict(<<[name |-> "Anna", isdict |-> FALSE, day |-> NoneV, month |-> NoneV, year |-> NoneV]>>) }

InitBirthdays ==
  /\ pc = "fn_birthdays"
  /\ MainInit
  /\ arg \in { [fn |-> "get_upcoming_birthdays", today |-> t, file |-> f, days |-> d] :
                 t \in {x \in Todays : ValidDate(x.year, x.month, x.day)},
                 f \in BirthdayFiles, d \in HorizonDays }
  /\ ret = NoRet

ApplyBirthdays ==
  /\ pc = "fn_birthdays"
  /\ ret' = [done |-> TRUE] @@ get_upcoming_birthdays(arg.today, arg.file, arg.days)
  /\ pc' = "fn_done"
  /\ UNCHANGED <<mainVars, arg>>

SpecBirthdays == InitBirthdays /\ [][ApplyBirthdays]_vars

\* card_block ---------------------------------------------------------------
Gap == 22

HWeather == 280

HCalendar == 360

HBirthdays == 300

ContentHeight == 1836

HTodosMin == 520

\* h_todos = max(520, remaining)
HTodos ==
  LET remaining == ContentHeight - (HWeather + HCalendar + HBirthdays + 3 * Gap)
  IN IF remaining > HTodosMin THEN remaining ELSE HTodosMin

\* y after the title and the subtitle: 210 + 80 + 58.
LayoutTop == 348

CalendarCap == 11

TodosCap == 18

BirthdaysCap == 5

\* (y0, h, header, longest list) of the three calls, lines 737-746.
LayoutCards ==
  LET yCal == LayoutTop + HWeather + Gap
      yTodo == yCal + HCalendar + Gap
      yBd == yTodo + HTodos + Gap
  IN { [y |-> yCal, h |-> HCalendar, header |-> "Termine", cap |-> CalendarCap],
       [y |-> yTodo, h |-> HTodos, header |-> "To-dos", cap |-> TodosCap],
       [y |-> yBd, h |-> HBirthdays, header |-> "Geburtstage (7 Tage)", cap |-> BirthdaysCap] }

\* What each of the three calls can be handed.  "Termine" gets the lines of
\* khal, which are not stripped one by one: a line that is only the bullet
\* prefix has no content and wraps to no physical line.  "To-dos" gets at
\* most max_lines tasks and the suffix line; a task whose cleaned text is
\* empty ("- [ ] -") wraps to no line either.  Birthday lines always hold
\* text.
CardItems(header) ==
  IF header = "Termine"
  THEN { Item("bullet", "*", <<>>), Item("clock", "09:00", <<"a">>) }
  ELSE IF header = "To-dos"
  THEN { Item("plain", "", <<>>), Item("plain", "", <<"a">>), Item("plain", "", <<"ccc", "ccc">>) }
  ELSE { Item("plain", "", <<"a">>), Item("plain", "", <<"ccc", "ccc">>) }

\* The longest list a call is handed: the slice of lines 738-746, for the
\* to-do card the length get_todos_lines() allows, and the model's bound.
CardCap(c) ==
  LET k == IF c.header = "To-dos" /\ DefaultMaxLines + 1 < c.cap THEN DefaultMaxLines + 1 ELSE c.cap
  IN IF k < MaxItems THEN k ELSE MaxItems

\* card_w = W - 2 * margin
CardW == 984

InitCard ==
  /\ pc = "fn_card"
  /\ MainInit
  /\ arg \in UNION { { [fn |-> "card_block", y |-> c.y, h |-> c.h, w |-> CardW, style |-> st,
                         header |-> c.header, items |-> its] :
                          st \in {"cards", "list"}, its \in SeqsUpTo(CardItems(c.header), CardCap(c)) } :
                      c \in LayoutCards }
  /\ ret = NoRet

ApplyCard ==
  /\ pc = "fn_card"
  /\ ret' = [done |-> TRUE] @@ card_block(arg.y, arg.w, arg.h, arg.style, arg.header, arg.items)
  /\ pc' = "fn_done"
  /\ UNCHANGED <<mainVars, arg>>

SpecCard == InitCard /\ [][ApplyCard]_vars

(***************************************************************************)
(* Properties.                                                             *)
(***************************************************************************)
Returned == pc \in {"Delivered", "DeliveryFailed"}

Calls(c) == {i \in 1..Len(sent) : sent[i].call = c}

SomeDeliverySucceeded == \E i \in 1..Len(sent) : sent[i].result = "ok"

\* C1: once main() has returned, the exit code is 0 exactly when some
\* delivery call returned success, and 1 exactly when every delivery call
\* made in the run failed (and at least the text call was made).
C1_ExitCodeIffDelivered ==
  Returned =>
    /\ exitCode \in {0, 1}
    /\ (exitCode = 0) <=> SomeDeliverySucceeded
    /\ (exitCode = 1) <=> (\A i \in 1..Len(sent) : sent[i].result # "ok")
    /\ Len(sent) >= 1

C1_Witness ==
  /\ pc = "DeliveryFailed"
  /\ exitCode = 1
  /\ Len(sent) = 2
  /\ render = "png"

\* C2: the image send is attempted at most once and only as the first
\* delivery call; the text send is attempted at most once, never after a
\* successful image send, and in a returned run exactly once when rendering
\* raised or the image send did not succeed.
C2_FallbackOnceNoImageRetry ==
  /\ Cardinality(Calls("photo")) <= 1
  /\ \A i \in Calls("photo") : i = 1
  /\ Cardinality(Calls("message")) <= 1
  /\ (\E i \in Calls("photo") : sent[i].result = "ok") => Calls("message") = {}
  /\ Returned =>
       (Cardinality(Calls("message")) = 1
          <=> (render = "raised" \/ \E i \in Calls("photo") : sent[i].result # "ok"))
  /\ render = "raised" => Calls("photo") = {}

C2_Witness ==
  /\ Returned
  /\ Len(sent) = 2
  /\ sent[1] = [call |-> "photo", result |-> "fail"]
  /\ sent[2].call = "message"

\* C3 (as claimed): a run that has stopped is in Delivered or DeliveryFailed;
\* in particular no run ends during data gathering.
C3_StopsOnlyInTerminalState == (~ENABLED Next) => pc \in {"Delivered", "DeliveryFailed"}

\* C4 (as claimed): no adapter lets a source failure through to main().
C4_NoSourceFailurePropagates == pc # "crashed"

\* C6: every list handed to weather_block / card_block has at least one
\* entry, whatever the sources returned.
C6_LayoutListsNonEmpty == \A i \in 1..Len(handed) : Len(handed[i].lines) >= 1

C6_Witness ==
  /\ Len(handed) = 4
  /\ ~weather.ok
  /\ birthdays = <<>>
  /\ events = <<"Keine Termine">>
  /\ todos = <<"Keine To-dos fuer heute">>

\* C7: get_weather makes at most 3 attempts, each step of the loop being an
\* attempt (nothing happens between two attempts); no attempt follows a
\* successful one; it returns the result built from the first successful
\* response, and the "unavailable" placeholder exactly when all 3 failed.
C7_State ==
  /\ attempts = Len(wlog)
  /\ attempts <= 3
  /\ \A i \in 1..(Len(wlog) - 1) : AttemptRaises(wlog[i])
  /\ pc = "weather" => \A i \in 1..Len(wlog) : AttemptRaises(wlog[i])
  /\ pc # "weather" =>
       /\ Len(wlog) >= 1
       /\ LET last == wlog[Len(wlog)]
          IN /\ ~AttemptRaises(last) =>
                  /\ weather.ok
                  /\ weather.weather_code = last.wcode
                  /\ Len(weather.lines) = 4
                  /\ weather.lines[1].kind = "temp" /\ weather.lines[2].kind = "range"
             /\ AttemptRaises(last) => Len(wlog) = 3
       /\ (weather = WeatherUnavailable)
            <=> (Len(wlog) = 3 /\ \A i \in 1..3 : AttemptRaises(wlog[i]))
       /\ weather.ok <=> weather # WeatherUnavailable

C7_WeatherRetry == [](C7_State) /\ [][pc = "weather" => attempts' = attempts + 1]_vars

C7_Witness ==
  /\ pc = "calendar"
  /\ Len(wlog) = 3
  /\ AttemptRaises(wlog[1]) /\ AttemptRaises(wlog[2]) /\ ~AttemptRaises(wlog[3])
  /\ weather.ok

\* get_calendar ---------------------------------------------------------------
\* Position of the first non-blank line of a stdout (0 if there is none):
\* str.strip() removes the indentation of that line only.
FirstNonBlank(ls) ==
  IF \A i \in 1..Len(ls) : IsBlank(ls[i]) THEN 0
  ELSE CHOOSE i \in 1..Len(ls) : ~IsBlank(ls[i]) /\ \A j \in 1..(i - 1) : IsBlank(ls[j])

\* The tool output holds nothing but blank lines and "Today," header lines.
NoEventLine(ls) ==
  \A i \in 1..Len(ls) :
    \/ IsBlank(ls[i])
    \/ ls[i].text \in HeaderTexts /\ (ls[i].lead = 0 \/ i = FirstNonBlank(ls))

CalendarDone == ret.done /\ arg.fn = "get_calendar"

\* C5 (as claimed): the "Keine Termine" placeholder is returned when the
\* output has no event line and also when invoking the tool fails.
C5_PlaceholderOnEmptyOrError ==
  CalendarDone =>
    ((arg.run.kind = "raise" \/ NoEventLine(arg.run.stdout)) => ret.value = <<"Keine Termine">>)

\* C5 (amended): the "Keine Termine" placeholder is returned exactly when
\* the tool ran and its output has no event line; when invoking the tool
\* raises, the result is the one-element list "Fehler: <exception text>".
C5_PlaceholderOnEmptyFehlerOnError ==
  CalendarDone =>
    /\ arg.run.kind = "ok" => (NoEventLine(arg.run.stdout) <=> ret.value = <<"Keine Termine">>)
    /\ arg.run.kind = "raise" => ret.value = <<"Fehler: " \o arg.run.msg>>
    /\ Len(ret.value) >= 1

C5_Witness ==
  /\ CalendarDone
  /\ arg.run.kind = "ok"
  /\ Len(arg.run.stdout) = 3
  /\ arg.run.stdout[1].text \in HeaderTexts
  /\ IsBlank(arg.run.stdout[2])
  /\ ret.value = <<"Keine Termine">>

C5_WitnessError ==
  /\ CalendarDone
  /\ arg.run.kind = "raise"
  /\ Len(ret.value) = 1

\* card_block -----------------------------------------------------------------
CardDone == ret.done /\ arg.fn = "card_block"

\* C8 (as claimed): no content line is drawn at a cursor position beyond the
\* bottom padding boundary y + h - 40, whatever the style and however many
\* physical lines (none included) each item wraps into.
C8_NoLineBeyondBoundary ==
  CardDone => \A i \in 1..Len(ret.drawn) : ret.drawn[i] <= arg.y + arg.h - BottomPad

\* get_upcoming_birthdays -------------------------------------------------------
BirthdaysDone == ret.done /\ arg.fn = "get_upcoming_birthdays"

\* Days from today to the occurrence of (m, d) in year y.
DaysTo(today, y, m, d) == ToOrdinal(y, m, d) - Ord(today)

\* The occurrences of (m, d) on or after today within `days` days, as the
\* years they fall in.
OccurrenceYears(today, m, d, days) ==
  {y \in {today.year, today.year + 1} :
     ValidDate(y, m, d) /\ DaysTo(today, y, m, d) >= 0 /\ DaysTo(today, y, m, d) <= days}

\* The year the function looks (m, d) up in, and whether it is a date there.
LookupYear(today, m, d) ==
  IF ValidDate(today.year, m, d) /\ DaysTo(today, today.year, m, d) < 0 THEN today.year + 1 ELSE today.year

SkippedAsInvalid(today, m, d) ==
  \/ ~ValidDate(today.year, m, d)
  \/ ~ValidDate(LookupYear(today, m, d), m, d)

WellFormed(e) == e.isdict /\ e.day.t = "int" /\ e.month.t = "int" /\ e.day.v # 0 /\ e.month.v # 0

ExpectedEntries ==
  {i \in 1..Len(arg.file.entries) :
     LET e == arg.file.entries[i]
     IN /\ WellFormed(e)
        /\ OccurrenceYears(arg.today, e.month.v, e.day.v, arg.days) # {}
        /\ ~SkippedAsInvalid(arg.today, e.month.v, e.day.v)}

EntryNamed(n) == arg.file.entries[CHOOSE i \in 1..Len(arg.file.entries) : arg.file.entries[i].name = n]

\* Days to the nearest occurrence on or after today.
ExpectedDaysUntil(e) ==
  LET ys == OccurrenceYears(arg.today, e.month.v, e.day.v, arg.days)
      y == CHOOSE a \in ys : \A b \in ys : a <= b
  IN DaysTo(arg.today, y, e.month.v, e.day.v)

\* C9: when the function returns, the result holds exactly the entries whose
\* next occurrence on or after today is at most `days` days away and is not
\* skipped as an invalid date, each once, with the non-negative number of
\* days to that occurrence, in ascending order of that number.
C9_UpcomingWithinHorizonSorted ==
  BirthdaysDone /\ ~ret.raised =>
    /\ Len(ret.value) = Len(ret.upcoming)
    /\ Len(ret.upcoming) = Cardinality(ExpectedEntries)
    /\ {ret.upcoming[i].name : i \in 1..Len(ret.upcoming)} = {arg.file.entries[i].name : i \in ExpectedEntries}
    /\ \A i \in 1..Len(ret.upcoming) :
         /\ ret.upcoming[i].du >= 0
         /\ ret.upcoming[i].du <= arg.days
         /\ ret.upcoming[i].du = ExpectedDaysUntil(EntryNamed(ret.upcoming[i].name))
    /\ \A i \in 1..(Len(ret.upcoming) - 1) : ret.upcoming[i].du <= ret.upcoming[i + 1].du

\* Rolled over to next year across the December/January boundary, and sorted.
C9_Witness ==
  /\ BirthdaysDone /\ ~ret.raised
  /\ arg.today = Date(2024, 12, 28)
  /\ Len(ret.upcoming) = 2
  /\ ret.upcoming[1].name = "Ben" /\ ret.upcoming[1].du = 3
  /\ ret.upcoming[2].name = "Anna" /\ ret.upcoming[2].du = 4

\* C10 (as claimed): each returned string is "Heute: NAME", "Morgen: NAME" or
\* "in N Tagen: NAME", followed by " (age)" whenever the entry has a birth
\* year, age being the year of the projected occurrence minus the birth year.
ExpectedString(u) ==
  LET e == EntryNamed(u.name)
      occ == LookupYear(arg.today, e.month.v, e.day.v)
      prefix == IF u.du = 0 THEN "Heute" ELSE IF u.du = 1 THEN "Morgen" ELSE "in " \o ToString(u.du) \o " Tagen"
  IN prefix \o ": " \o u.name
       \o (IF e.year.t = "int" THEN " (" \o ToString(occ - e.year.v) \o ")" ELSE "")

C10_FormatWithAge ==
  BirthdaysDone /\ ~ret.raised =>
    \A i \in 1..Len(ret.value) : ret.value[i] = ExpectedString(ret.upcoming[i])

(***************************************************************************)
(* get_todos_lines on its own.                                             *)
(***************************************************************************)
MaxTodoLines == 4

TodoLineSet ==
  { Line(0, "# Heading", 0), Line(0, "", 0), Line(0, "note text", 0),
    Line(0, "- [ ] task1", 0), Line(0, "- [x] task2", 1), Line(2, "- [ ] task3", 0) }

TodoMaxLines == {0, 1, 2, 6}

TodoInputs ==
  { [kind |-> "text", lines |-> ls] : ls \in SeqsUpTo(TodoLineSet, MaxTodoLines) }
  \cup { [kind |-> k, lines |-> <<>>] : k \in {"missing", "unreadable"} }
  \cup { [kind |-> "text", lines |-> <<Line(0, "- [docs](url)", 0), Line(0, "note text", 0)>>] }

InitTodos ==
  /\ pc = "fn_todos"
  /\ MainInit
  /\ arg \in { [fn |-> "get_todos_lines", file |-> f, max_lines |-> n] : f \in TodoInputs, n \in TodoMaxLines }
  /\ ret = NoRet

ApplyTodos ==
  /\ pc = "fn_todos"
  /\ ret' = [done |-> TRUE, value |-> get_todos_lines(arg.file, arg.max_lines)]
  /\ pc' = "fn_done"
  /\ UNCHANGED <<mainVars, arg>>

SpecTodos == InitTodos /\ [][ApplyTodos]_vars

TodosDone == ret.done /\ arg.fn = "get_todos_lines"

\* The texts of the model that are checkbox tasks: "- [ ]" or "- [x]" and
\* the task's text.  A markdown link in a list, "- [docs](url)", is prose.
CheckboxTaskTexts == {"- [ ] task1", "- [x] task2", "- [ ] task3", "- [X] task4"}

\* Positions of the file lines that are checkbox tasks.
TaskPositions == {i \in 1..Len(arg.file.lines) : arg.file.lines[i].text \in CheckboxTaskTexts}

\* Position in the file of the k-th task.
NthTask(k) == CHOOSE i \in TaskPositions : Cardinality({j \in TaskPositions : j < i}) = k - 1

TodoPlaceholder == <<"Keine To-dos fuer heute">>

\* C11 (as claimed): the result is the placeholder when the file has no checkbox task;
\* otherwise the (stripped) task lines in file order, headings, blank lines
\* and prose dropped; and with more than max_lines tasks, the first
\* max_lines of them followed by one suffix line counting the rest, so never
\* more than max_lines + 1 entries.
C11_TodosFilteredAndTruncated ==
  TodosDone =>
    LET n == Cardinality(TaskPositions)
        m == arg.max_lines
        v == ret.value
    IN /\ n = 0 => v = TodoPlaceholder
       /\ (n > 0 /\ n <= m) =>
            /\ Len(v) = n
            /\ \A k \in 1..n : v[k] = arg.file.lines[NthTask(k)].text
       /\ n > m =>
            /\ Len(v) = m + 1
            /\ \A k \in 1..m : v[k] = arg.file.lines[NthTask(k)].text
            /\ v[m + 1] = "... (+" \o ToString(n - m) \o " weitere)"
       /\ n > 0 => Len(v) <= m + 1

\* Four lines, three of them tasks, cut to the first two plus the suffix.
C11_Witness ==
  /\ TodosDone
  /\ arg.max_lines = 2
  /\ Len(arg.file.lines) = 4
  /\ arg.file.lines[1].text = "# Heading"
  /\ Cardinality(TaskPositions) = 3
  /\ Len(ret.value) = 3
  /\ ret.value[3] = "... (+1 weitere)"

(***************************************************************************)
(* _wrap on its own: wrap a text, then wrap each output line again.        *)
(***************************************************************************)
MaxWords == 4

WrapWords == {"a", "bb", "ccc", "dddd"}

WrapWidths == {350, 916, 1100}

\* The text of the given words with `pad` extra spaces in front of every
\* word and at the end.
RECURSIVE MakeText(_, _)
MakeText(ws, pad) ==
  IF ws = <<>> THEN [i \in 1..pad |-> " "]
  ELSE [i \in 1..pad |-> " "] \o <<Head(ws)>> \o (IF Len(ws) > 1 THEN <<" ">> ELSE <<>>) \o MakeText(Tail(ws), pad)

InitWrap ==
  /\ pc = "fn_wrap"
  /\ MainInit
  /\ arg \in { [fn |-> "_wrap", words |-> ws, text |-> MakeText(ws, pad), max_width |-> mw] :
                 ws \in SeqsUpTo(WrapWords, MaxWords), pad \in 0..1, mw \in WrapWidths }
  /\ ret = NoRet

ApplyWrap ==
  /\ pc = "fn_wrap"
  /\ ret' = [done |-> TRUE, lines |-> wrap_text(arg.text, arg.max_width), again |-> <<>>]
  /\ pc' = "fn_wrapped"
  /\ UNCHANGED <<mainVars, arg>>

\* Each output line is wrapped on its own, same width and measure.
ApplyRewrap ==
  /\ pc = "fn_wrapped"
  /\ ret' = [ret EXCEPT !.again = [i \in 1..Len(ret.lines) |-> wrap_text(ret.lines[i], arg.max_width)]]
  /\ pc' = "fn_done"
  /\ UNCHANGED <<mainVars, arg>>

SpecWrap == InitWrap /\ [][ApplyWrap \/ ApplyRewrap]_vars

WrapDone == ret.done /\ arg.fn = "_wrap"

\* Words of an output line string.
LineWords(l) == SelectSeq(l, LAMBDA tk : tk # " ")

RECURSIVE Flatten(_)
Flatten(ss) == IF ss = <<>> THEN <<>> ELSE Head(ss) \o Flatten(Tail(ss))

RECURSIVE SumWidths(_)
SumWidths(ws) == IF ws = <<>> THEN 0 ELSE WordWidth(Head(ws)) + SumWidths(Tail(ws))

\* Measured width of a line of words: the words plus single spaces.
LineWidth(ws) == SumWidths(ws) + SpaceW * (Len(ws) - 1)

\* C12: (a) the words of the output lines, in order, are the input's words;
\* (b) a line fits max_width or is a single word; (c) a line ends only where
\* the next word would not have fitted; no output line is empty, and every
\* line is its words joined by single spaces.
C12_WrapGreedyWordPreserving ==
  WrapDone =>
    LET ls == ret.lines
    IN /\ Flatten([i \in 1..Len(ls) |-> LineWords(ls[i])]) = arg.words
       /\ \A i \in 1..Len(ls) :
            /\ Len(LineWords(ls[i])) >= 1
            /\ LineWidth(LineWords(ls[i])) <= arg.max_width \/ Len(LineWords(ls[i])) = 1
            /\ Len(ls[i]) = 2 * Len(LineWords(ls[i])) - 1
            /\ ls[i][1] # " " /\ ls[i][Len(ls[i])] # " "
       /\ \A i \in 1..(Len(ls) - 1) :
            LineWidth(Append(LineWords(ls[i]), LineWords(ls[i + 1])[1])) > arg.max_width

\* Padded input, an overlong single word on a line of its own, three lines.
C12_Witness ==
  /\ WrapDone
  /\ arg.max_width = 916
  /\ arg.words = <<"a", "bb", "dddd", "a">>
  /\ arg.text[1] = " "
  /\ ret.lines = << <<"a", " ", "bb">>, <<"dddd">>, <<"a">> >>

\* C13: wrapping an output line again with the same width gives back that
\* line alone.
C13_WrapIdempotent ==
  (WrapDone /\ pc = "fn_done") =>
    /\ Len(ret.again) = Len(ret.lines)
    /\ \A i \in 1..Len(ret.lines) : ret.again[i] = <<ret.lines[i]>>

C13_Witness ==
  /\ WrapDone /\ pc = "fn_done"
  /\ arg.max_width = 350
  /\ Len(ret.lines) = 3
  /\ ret.lines[1] = <<"bb">>
  /\ ret.again[2] = <<ret.lines[2]>>

(***************************************************************************)
(* Weather icon: _weather_code_to_kind, then _pick_icon_for_weather.       *)
(***************************************************************************)
\* Mutant: the shower codes 80-82 and 85-86 are not handled.
_weather_code_to_kind_NoShowers(code) ==
  IF code.t = "none" THEN "cloud"
  ELSE IF code.t # "int" THEN "cloud"
  ELSE LET c == code.v
       IN IF c = 0 THEN "sun"
          ELSE IF c \in {1, 2, 3} THEN "cloud"
          ELSE IF c \in {45, 48} THEN "fog"
          ELSE IF c \in {51, 53, 55, 56, 57} THEN "drizzle"
          ELSE IF c \in {61, 63, 65, 66, 67} THEN "rain"
          ELSE IF c \in {71, 73, 75, 77} THEN "snow"
          ELSE IF c \in {95, 96, 99} THEN "storm"
          ELSE "cloud"

\* code is None, an integer, or a string int() rejects.
_weather_code_to_kind(code) ==
  IF code.t = "none" THEN "cloud"
  ELSE IF code.t # "int" THEN "cloud"                    \* int(code) raised
  ELSE LET c == code.v
       IN IF c = 0 THEN "sun"
          ELSE IF c \in {1, 2, 3} THEN "cloud"
          ELSE IF c \in {45, 48} THEN "fog"
          ELSE IF c \in {51, 53, 55, 56, 57} THEN "drizzle"
          ELSE IF c \in {61, 63, 65, 66, 67} THEN "rain"
          ELSE IF c \in {71, 73, 75, 77} THEN "snow"
          ELSE IF c \in {80, 81, 82} THEN "rain"
          ELSE IF c \in {85, 86} THEN "snow"
          ELSE IF c \in {95, 96, 99} THEN "storm"
          ELSE "cloud"

\* The icon drawn: _icon_sun, _icon_cloud(rain=True), _icon_cloud(snow=True),
\* _icon_fog, _icon_cloud.
_pick_icon_for_weather(kind) ==
  IF kind = "sun" THEN "sun"
  ELSE IF kind \in {"rain", "drizzle", "storm"} THEN "rain-cloud"
  ELSE IF kind = "snow" THEN "snow-cloud"
  ELSE IF kind = "fog" THEN "fog"
  ELSE "cloud"

NegCodes == 2

MaxCode == 100

WeatherCodes == {NoneV, StrV} \cup {IntV(n) : n \in (0 - NegCodes)..MaxCode}

InitIcon ==
  /\ pc = "fn_icon"
  /\ MainInit
  /\ arg \in { [fn |-> "weather_icon", code |-> c] : c \in WeatherCodes }
  /\ ret = NoRet

\* kind = _weather_code_to_kind(weather_obj.get("weather_code"))
ApplyKind ==
  /\ pc = "fn_icon"
  /\ ret' = [done |-> FALSE, kind |-> _weather_code_to_kind(arg.code), icon |-> ""]
  /\ pc' = "fn_kind"
  /\ UNCHANGED <<mainVars, arg>>

\* big = _pick_icon_for_weather(kind, 140)
ApplyPick ==
  /\ pc = "fn_kind"
  /\ ret' = [ret EXCEPT !.done = TRUE, !.icon = _pick_icon_for_weather(ret.kind)]
  /\ pc' = "fn_done"
  /\ UNCHANGED <<mainVars, arg>>

SpecIcon == InitIcon /\ [][ApplyKind \/ ApplyPick]_vars

IconDone == ret.done /\ arg.fn = "weather_icon"

\* The documented bucket of an integer weather code.
DocumentedIcon(c) ==
  CASE c = 0 -> "sun"
    [] c \in {1, 2, 3} -> "cloud"
    [] c \in {45, 48} -> "fog"
    [] c \in {51, 53, 55, 56, 57} \cup {61, 63, 65, 66, 67, 80, 81, 82} \cup {95, 96, 99} -> "rain-cloud"
    [] c \in {71, 73, 75, 77, 85, 86} -> "snow-cloud"
    [] OTHER -> "cloud"

\* C14: the icon chosen for a weather code is the documented one for every
\* integer code, and the plain cloud for a missing code.
C14_IconMappingTotal ==
  IconDone =>
    /\ ret.icon \in {"sun", "cloud", "fog", "rain-cloud", "snow-cloud"}
    /\ arg.code.t = "int" => ret.icon = DocumentedIcon(arg.code.v)
    /\ arg.code.t = "none" => ret.icon = "cloud"

C14_Witness ==
  /\ IconDone
  /\ arg.code = IntV(82)
  /\ ret.kind = "rain"
  /\ ret.icon = "rain-cloud"

(***************************************************************************)
(* The three card_block calls of render_dashboard_png with their fixed     *)
(* geometry, one loop iteration (one item) per step.                       *)
(***************************************************************************)
MaxWrapLines == 17

\* Items wrapping to 1..MaxWrapLines physical lines (k words, each too wide
\* to share a line), and two ordinary ones.
LayoutItems ==
  { Item("plain", "", [i \in 1..k |-> "dddd"]) : k \in 1..MaxWrapLines }
  \cup { Item("clock", "09:00", <<"bb", "ccc">>), Item("plain", "", <<"a", "a">>) }

InitLayout ==
  /\ pc = "fn_layout"
  /\ MainInit
  /\ arg \in { [fn |-> "card_block_layout", y |-> c.y, h |-> c.h, w |-> CardW, style |-> st,
                header |-> c.header, cap |-> c.cap] : c \in LayoutCards, st \in {"cards", "list"} }
  /\ ret = [done |-> FALSE, yy |-> arg.y + StartOffset, n |-> 0, drawn |-> <<>>, truncated |-> FALSE]

\* One iteration of the for loop of card_block on the next item.
DrawItem ==
  /\ pc = "fn_layout"
  /\ ret.n < arg.cap
  /\ \E it \in LayoutItems :
       LET r == CardLoop(<<it>>, ret.yy, <<>>, arg.y, arg.h, arg.w - 68, arg.style, arg.header)
       IN /\ ret' = [done |-> r.truncated, yy |-> r.ret, n |-> ret.n + 1, drawn |-> r.drawn,
                     truncated |-> r.truncated]
          /\ pc' = IF r.truncated THEN "fn_done" ELSE "fn_layout"
  /\ UNCHANGED <<mainVars, arg>>

\* The list is exhausted: return yy (line 638).
ReturnCard ==
  /\ pc = "fn_layout"
  /\ ret.n >= 1
  /\ ret' = [ret EXCEPT !.done = TRUE]
  /\ pc' = "fn_done"
  /\ UNCHANGED <<mainVars, arg>>

SpecLayout == InitLayout /\ [][DrawItem \/ ReturnCard]_vars

LayoutCall == arg.fn = "card_block_layout"

\* C15: with the fixed heights 360 / 830 / 300, in both styles, no content
\* line is drawn below y + h - 40, and whenever a further item may still be
\* drawn the cursor (after any divider advance) is not below it either.
C15_FixedLayoutStaysInside ==
  LayoutCall =>
    /\ \A i \in 1..Len(ret.drawn) : ret.drawn[i] <= arg.y + arg.h - 40
    /\ pc = "fn_layout" => ret.yy <= arg.y + arg.h - 40

\* Drawing stopped at the boundary of the to-do card after several items and
\* dividers, the last line lying within one line advance of the boundary.
C15_Witness ==
  /\ LayoutCall
  /\ arg.header = "To-dos" /\ arg.h = 830
  /\ ret.truncated
  /\ ret.n >= 3
  /\ Len(ret.drawn) >= 1
  /\ ret.drawn[Len(ret.drawn)] > arg.y + arg.h - 40 - 44

(***************************************************************************)
(* weather_block: the rows of the weather card.                            *)
(***************************************************************************)
WeatherStartOffset == 92

WeatherRowAdvance == 44

WeatherDividerAdvance == 18

LabelW == 240

ColGap == 16

LineIconW == 54

label_map(lk) == CASE lk = "temp" -> "Aktuell"
                   [] lk = "range" -> "Tief / Hoch"
                   [] lk = "humidity" -> "Luftfeuchte"
                   [] lk = "wind" -> "Wind"
                   [] lk = "info" -> "Info"
                   [] OTHER -> lk

\* _extract_value(lk, txt), as the words of the value.
_extract_value(lk, ws) ==
  IF ws = <<>> THEN <<>>
  ELSE IF lk = "range" THEN ws
  ELSE IF lk \in {"temp", "humidity"} THEN <<ws[1]>>
  ELSE ws

\* rows (lines 696-698): (lk, label, value) of every line that is not None.
WeatherRows(weather_obj) ==
  LET ls == NonNone(weather_obj.lines)
  IN [i \in 1..Len(ls) |->
        [lk |-> ls[i].kind, label |-> label_map(ls[i].kind), value |-> _extract_value(ls[i].kind, ls[i].words)]]

\* Mutant: rows are drawn down to the card's bottom edge.
WeatherLimit_NoPadding(y0, h) == y0 + h

\* The cursor must not pass y0 + h - 40.
WeatherLimit(y0, h) == y0 + h - 40

\* Lines 720-723: how many wrapped value lines are drawn from yy.
RECURSIVE ValueLinesDrawn(_, _, _, _)
ValueLinesDrawn(n, j, yy, limit) ==
  IF j >= n THEN j
  ELSE IF yy + (j + 1) * WeatherRowAdvance > limit THEN j + 1
  ELSE ValueLinesDrawn(n, j + 1, yy, limit)

\* The for loop of lines 711-732: the rows drawn, each with its cursor.
RECURSIVE WeatherRowLoop(_, _, _, _, _, _)
WeatherRowLoop(rows, yy, y0, h, value_w, drawn) ==
  IF rows = <<>> THEN drawn
  ELSE LET row == Head(rows)
           nval == ValueLinesDrawn(Len(_wrap(row.value, value_w)), 0, yy, WeatherLimit(y0, h))
           d2 == Append(drawn, [lk |-> row.lk, label |-> row.label, yy |-> yy, value_lines |-> nval])
           yy2 == yy + WeatherRowAdvance
       IN IF yy2 > WeatherLimit(y0, h) THEN d2
          ELSE WeatherRowLoop(Tail(rows),
                              IF yy2 < y0 + h - DividerPad THEN yy2 + WeatherDividerAdvance ELSE yy2,
                              y0, h, value_w, d2)

\* weather_block(x, y0, w, h, weather_obj): the rows it draws.
weather_block(y0, w, h, weather_obj, icons_on, weather_icon_mode) ==
  LET max_w == w - 68
      icon_w == IF icons_on /\ weather_icon_mode = "lines" THEN LineIconW ELSE 0
      value_w == max_w - icon_w - LabelW - ColGap
  IN WeatherRowLoop(WeatherRows(weather_obj), y0 + WeatherStartOffset, y0, h, value_w, <<>>)

\* Responses get_weather can turn into a snapshot.
BlockResponses ==
  { Resp(IntV(t), IntV(-7), IntV(9), hum, ws, wd, wc) :
      t \in {5, -3}, hum \in {NoneV, IntV(80)}, ws \in {NoneV, IntV(12)},
      wd \in {NoneV, IntV(0), IntV(200)}, wc \in {NoneV, IntV(0), IntV(61)} }

WeatherSnapshots == {WeatherOk(r) : r \in {x \in BlockResponses : ~AttemptRaises(x)}} \cup {WeatherUnavailable}

InitWeatherBlock ==
  /\ pc = "fn_weather_block"
  /\ MainInit
  /\ arg \in { [fn |-> "weather_block", y0 |-> LayoutTop, w |-> CardW, h |-> HWeather, weather_obj |-> wo,
                icons_on |-> ic, weather_icon_mode |-> md] :
                 wo \in WeatherSnapshots, ic \in BOOLEAN, md \in {"mini", "lines"} }
  /\ ret = NoRet

ApplyWeatherBlock ==
  /\ pc = "fn_weather_block"
  /\ ret' = [done |-> TRUE,
             rows |-> weather_block(arg.y0, arg.w, arg.h, arg.weather_obj, arg.icons_on, arg.weather_icon_mode)]
  /\ pc' = "fn_done"
  /\ UNCHANGED <<mainVars, arg>>

SpecWeatherBlock == InitWeatherBlock /\ [][ApplyWeatherBlock]_vars

WeatherBlockDone == ret.done /\ arg.fn = "weather_block"

\* The kinds of the items the snapshot carries, in order.
SnapshotKinds ==
  LET ls == SelectSeq(arg.weather_obj.lines, LAMBDA l : l.kind # "none")
  IN [i \in 1..Len(ls) |-> ls[i].kind]

\* C16: with the card height 280 at most three rows are drawn, they are the
\* first rows of the snapshot in order, and the wind row of a snapshot with
\* all four items is not drawn.
C16_AtMostThreeWeatherRows ==
  WeatherBlockDone =>
    /\ Len(ret.rows) <= 3
    /\ Len(ret.rows) <= Len(SnapshotKinds)
    /\ \A i \in 1..Len(ret.rows) : ret.rows[i].lk = SnapshotKinds[i]
    /\ SnapshotKinds = <<"temp", "range", "humidity", "wind">> =>
         /\ Len(ret.rows) = 3
         /\ \A i \in 1..Len(ret.rows) : ret.rows[i].lk # "wind"

C16_Witness ==
  /\ WeatherBlockDone
  /\ SnapshotKinds = <<"temp", "range", "humidity", "wind">>
  /\ Len(ret.rows) = 3
  /\ ret.rows[3].lk = "humidity"
  /\ ret.rows[3].yy = arg.y0 + 216

====
